---- MODULE Spec2Model ----
(***************************************************************************)
(* count_rust_sloc of repos/sloc-rust.py: the walk over the files of a     *)
(* directory and, per file, the character-level scanner that decides for   *)
(* every line whether it holds code.  One step of the inner while loop is  *)
(* one action; the variables are the locals of the function.               *)
(***************************************************************************)
EXTENDS Integers, Sequences, FiniteSets, TLC

\* Bounds of the model
MaxLineLen == 3
MaxLines == 3
MaxFiles == 2

\* Characters.  SP stands for any whitespace other than the line terminator,
\* X for any character the scanner has no rule for.
SL == "/"
ST == "*"
DQ == "\""
SQ == "'"
BS == "\\"
RR == "r"
HS == "#"
SP == " "
XX == "x"
NL == "\n"
NoChar == ""
None == "None"

Chars == {SL, ST, DQ, SQ, BS, RR, HS, SP, XX}
Whitespace == {SP, NL}

BoundedSeq(S, n) == UNION {[1..m -> S] : m \in 0..n}

\* Longer lines taken from the documented examples, scanned besides every
\* line of at most MaxLineLen characters.
SampleLines ==
  { <<SL, ST, XX, SL, ST, XX, ST, SL, XX, ST, SL, XX>>,
    <<SL, ST, XX, SL, ST, XX, ST, SL, XX, ST, SL, SP>>,
    <<XX, SP, SL, SL, SP, XX>>,
    <<XX, DQ, SL, SL, SP, XX, DQ, XX>>,
    <<XX, DQ, SL, ST, DQ, XX>>,
    <<RR, HS, HS, DQ, XX>>,
    <<XX, DQ, HS, HS, HS, XX>>,
    <<RR, DQ, BS, DQ, XX>> }

LineBodies == BoundedSeq(Chars, MaxLineLen) \cup SampleLines

VARIABLES
  pc,              \* "walk" | "file" | "line" | "done"
  fileNo,          \* files of the walk handled so far
  lineNo,          \* lines of the current file read so far
  lastLine,        \* the line read has no terminator: the file ends after it
  total,
  block_depth, in_string, string_quote, raw_hashes, escape,
  line, i, code_buf, in_line_comment,
  startTotal,      \* history: total when the current file was opened
  failed,          \* history: the last file handled raised OSError
  opened_raw,      \* history: the open literal was opened by r, hashes, quote
  startState,      \* history: the scanner state the current line started in
  bufAtOpen,       \* history: code_buf when the depth last left 0 on this line
  minDepth,        \* history: the least depth the current line was scanned in
  prevOpen,        \* history: the last file scanned ended in a comment or literal
  codeLines,       \* history: lines of the current file classified has-code
  iters,           \* history: iterations of the while loop on the current line
  seqDepth,        \* history: depth after the lines read, by the text alone
  seqCount,        \* history: has-code lines among the lines read, by the text
  other,           \* the locals of the invocation that is not running
  cur              \* the invocation that is running

vars == <<pc, fileNo, lineNo, lastLine, total, block_depth, in_string,
          string_quote, raw_hashes, escape, line, i, code_buf,
          in_line_comment, startTotal, failed, opened_raw, startState,
          bufAtOpen, minDepth, prevOpen, codeLines, iters, seqDepth, seqCount,
          other, cur>>

fileState == <<block_depth, in_string, string_quote, raw_hashes, escape>>
lineState == <<line, i, code_buf, in_line_comment>>
lineHist == <<startState, bufAtOpen, minDepth>>
NoStart == <<0, FALSE, None, 0, FALSE>>

----------------------------------------------------------------------------
\* line[k] with Python's 0-based index, "" past the end (ch and nxt)
At(l, k) == IF k >= 0 /\ k < Len(l) THEN l[k + 1] ELSE NoChar

line_len == Len(line)
ch == At(line, i)
nxt == At(line, i + 1)

RECURSIVE LStrip(_)
LStrip(s) == IF s # <<>> /\ Head(s) \in Whitespace THEN LStrip(Tail(s)) ELSE s

RECURSIVE RStrip(_)
RStrip(s) ==
  IF s # <<>> /\ s[Len(s)] \in Whitespace THEN RStrip(SubSeq(s, 1, Len(s) - 1))
  ELSE s

\* ''.join(code_buf).strip()
Strip(s) == RStrip(LStrip(s))

\* variant: the look-ahead counts every hash that follows the quote
RECURSIVE CloseHashesGreedy(_, _, _, _)
CloseHashesGreedy(l, j, k, n) ==
  IF j < Len(l) /\ At(l, j) = HS THEN CloseHashesGreedy(l, j + 1, k + 1, n)
  ELSE k

\* the hashes counted by the look-ahead of the closing delimiter, from index j
RECURSIVE CloseHashes(_, _, _, _)
CloseHashes(l, j, k, n) ==
  IF k < n /\ j < Len(l) /\ At(l, j) = HS THEN CloseHashes(l, j + 1, k + 1, n)
  ELSE k

\* the hashes counted after the r of an opening delimiter, from index j
RECURSIVE OpenHashes(_, _)
OpenHashes(l, j) ==
  IF j < Len(l) /\ At(l, j) = HS THEN 1 + OpenHashes(l, j + 1) ELSE 0

Repeat(c, n) == [k \in 1..n |-> c]

----------------------------------------------------------------------------
\* the scanner that tracks the depth and // only: <<depth, has-code>> of line l
\* scanned from index k at depth d
RECURSIVE Reduced(_, _, _, _)
Reduced(l, k, d, has) ==
  IF k >= Len(l) THEN <<d, has>>
  ELSE IF d > 0
    THEN IF At(l, k) = SL /\ At(l, k + 1) = ST THEN Reduced(l, k + 2, d + 1, has)
         ELSE IF At(l, k) = ST /\ At(l, k + 1) = SL
                THEN Reduced(l, k + 2, d - 1, has)
                ELSE Reduced(l, k + 1, d, has)
    ELSE IF At(l, k) = SL /\ At(l, k + 1) = SL THEN <<d, has>>
         ELSE IF At(l, k) = SL /\ At(l, k + 1) = ST
                THEN Reduced(l, k + 2, 1, has)
                ELSE Reduced(l, k + 1, d, has \/ At(l, k) \notin Whitespace)

Init ==
  /\ pc = "walk"
  /\ fileNo = 0
  /\ lineNo = 0
  /\ lastLine = FALSE
  /\ total = 0
  /\ block_depth = 0
  /\ in_string = FALSE
  /\ string_quote = None
  /\ raw_hashes = 0
  /\ escape = FALSE
  /\ line = <<>>
  /\ i = 0
  /\ code_buf = <<>>
  /\ in_line_comment = FALSE
  /\ startTotal = 0
  /\ failed = FALSE
  /\ opened_raw = FALSE
  /\ startState = NoStart
  /\ bufAtOpen = <<>>
  /\ minDepth = 0
  /\ prevOpen = FALSE
  /\ codeLines = 0
  /\ iters = 0
  /\ seqDepth = 0
  /\ seqCount = 0
  /\ other = <<"walk", 0, 0, FALSE, 0, 0, FALSE, None, 0, FALSE, <<>>, 0, <<>>,
               FALSE, 0, FALSE, FALSE, NoStart, <<>>, 0, FALSE, 0, 0, 0, 0>>
  /\ cur = 1

\* a file whose name does not end in .rs is passed over
SkipFile ==
  /\ pc = "walk"
  /\ fileNo < MaxFiles
  /\ fileNo' = fileNo + 1
  /\ failed' = FALSE
  /\ UNCHANGED <<pc, lineNo, lastLine, total, fileState, lineState,
                 startTotal, opened_raw, lineHist, prevOpen, codeLines, iters>>
  /\ UNCHANGED <<seqDepth, seqCount, other, cur>>

\* variant: the scanner state is initialised once, before the walk
OpenFileNoReset ==
  /\ pc = "walk"
  /\ fileNo < MaxFiles
  /\ pc' = "file"
  /\ lineNo' = 0
  /\ lastLine' = FALSE
  /\ startTotal' = total
  /\ failed' = FALSE
  /\ opened_raw' = FALSE
  /\ codeLines' = 0
  /\ UNCHANGED <<fileNo, total, fileState, lineState, lineHist, prevOpen,
                 iters>>
  /\ seqDepth' = 0
  /\ UNCHANGED <<seqCount, other, cur>>

\* open() succeeds: the scanner state of the file is initialised
OpenFile ==
  /\ pc = "walk"
  /\ fileNo < MaxFiles
  /\ pc' = "file"
  /\ lineNo' = 0
  /\ lastLine' = FALSE
  /\ block_depth' = 0
  /\ in_string' = FALSE
  /\ string_quote' = None
  /\ raw_hashes' = 0
  /\ escape' = FALSE
  /\ startTotal' = total
  /\ failed' = FALSE
  /\ opened_raw' = FALSE
  /\ codeLines' = 0
  /\ UNCHANGED <<fileNo, total, lineState, lineHist, prevOpen, iters>>
  /\ seqDepth' = 0
  /\ UNCHANGED <<seqCount, other, cur>>

\* open() raises OSError: except OSError: continue
OpenFail ==
  /\ pc = "walk"
  /\ fileNo < MaxFiles
  /\ fileNo' = fileNo + 1
  /\ startTotal' = total
  /\ failed' = TRUE
  /\ codeLines' = 0
  /\ UNCHANGED <<pc, lineNo, lastLine, total, fileState, lineState,
                 opened_raw, lineHist, prevOpen, iters>>
  /\ UNCHANGED <<seqDepth, seqCount, other, cur>>

\* for line in f: the next line, terminated or (the last one) not
ReadLineFrom(bodies) ==
  /\ pc = "file"
  /\ ~lastLine
  /\ lineNo < MaxLines
  /\ \E body \in bodies, term \in BOOLEAN :
       /\ term \/ body # <<>>
       /\ line' = IF term THEN Append(body, NL) ELSE body
       /\ lastLine' = ~term
  /\ lineNo' = lineNo + 1
  /\ i' = 0
  /\ code_buf' = <<>>
  /\ in_line_comment' = FALSE
  /\ pc' = "line"
  /\ startState' = fileState
  /\ bufAtOpen' = <<>>
  /\ minDepth' = block_depth
  /\ iters' = 0
  /\ UNCHANGED <<fileNo, total, fileState, startTotal, failed, opened_raw,
                 prevOpen, codeLines>>
  /\ seqDepth' = Reduced(line', 0, seqDepth, FALSE)[1]
  /\ seqCount' = IF Reduced(line', 0, seqDepth, FALSE)[2]
                    THEN seqCount + 1 ELSE seqCount
  /\ UNCHANGED <<other, cur>>

\* variant: the scanner state is initialised for every line
ReadLineFresh ==
  /\ pc = "file"
  /\ ~lastLine
  /\ lineNo < MaxLines
  /\ \E body \in LineBodies, term \in BOOLEAN :
       /\ term \/ body # <<>>
       /\ line' = IF term THEN Append(body, NL) ELSE body
       /\ lastLine' = ~term
  /\ lineNo' = lineNo + 1
  /\ i' = 0
  /\ code_buf' = <<>>
  /\ in_line_comment' = FALSE
  /\ pc' = "line"
  /\ block_depth' = 0
  /\ in_string' = FALSE
  /\ string_quote' = None
  /\ raw_hashes' = 0
  /\ escape' = FALSE
  /\ startState' = NoStart
  /\ bufAtOpen' = <<>>
  /\ minDepth' = 0
  /\ opened_raw' = FALSE
  /\ iters' = 0
  /\ UNCHANGED <<fileNo, total, startTotal, failed, prevOpen, codeLines>>
  /\ seqDepth' = Reduced(line', 0, seqDepth, FALSE)[1]
  /\ seqCount' = IF Reduced(line', 0, seqDepth, FALSE)[2]
                    THEN seqCount + 1 ELSE seqCount
  /\ UNCHANGED <<other, cur>>

ReadLine == ReadLineFrom(LineBodies)

\* reading the next line raises OSError: the handler skips to the next file
ReadFail ==
  /\ pc = "file"
  /\ ~lastLine
  /\ pc' = "walk"
  /\ fileNo' = fileNo + 1
  /\ failed' = TRUE
  /\ prevOpen' = (block_depth > 0 \/ in_string)
  /\ UNCHANGED <<lineNo, lastLine, total, fileState, lineState, startTotal,
                 opened_raw, lineHist, codeLines, iters>>
  /\ UNCHANGED <<seqDepth, seqCount, other, cur>>

\* variant: a line is counted for the comment or literal left open
EndOfFileCountsOpen ==
  /\ pc = "file"
  /\ pc' = "walk"
  /\ fileNo' = fileNo + 1
  /\ failed' = FALSE
  /\ prevOpen' = (block_depth > 0 \/ in_string)
  /\ total' = IF block_depth > 0 \/ in_string THEN total + 1 ELSE total
  /\ UNCHANGED <<lineNo, lastLine, fileState, lineState, startTotal,
                 opened_raw, lineHist, codeLines, iters>>
  /\ UNCHANGED <<seqDepth, seqCount, other, cur>>

\* the file is exhausted
EndOfFile ==
  /\ pc = "file"
  /\ pc' = "walk"
  /\ fileNo' = fileNo + 1
  /\ failed' = FALSE
  /\ prevOpen' = (block_depth > 0 \/ in_string)
  /\ UNCHANGED <<lineNo, lastLine, total, fileState, lineState, startTotal,
                 opened_raw, lineHist, codeLines, iters>>
  /\ UNCHANGED <<seqDepth, seqCount, other, cur>>

\* the walk is exhausted: return total
Return ==
  /\ pc = "walk"
  /\ pc' = "done"
  /\ UNCHANGED <<fileNo, lineNo, lastLine, total, fileState, lineState,
                 startTotal, failed, opened_raw, lineHist, prevOpen,
                 codeLines, iters>>
  /\ UNCHANGED <<seqDepth, seqCount, other, cur>>

----------------------------------------------------------------------------
\* while i < line_len, not left by break
Scanning == pc = "line" /\ i < line_len /\ ~in_line_comment

\* variant: block comments do not nest, the first */ ends the comment
InBlockCommentFlat ==
  /\ Scanning
  /\ block_depth > 0
  /\ IF ch = ST /\ nxt = SL
       THEN block_depth' = 0 /\ i' = i + 2
       ELSE block_depth' = block_depth /\ i' = i + 1
  /\ minDepth' = IF block_depth' < minDepth THEN block_depth' ELSE minDepth
  /\ iters' = iters + 1
  /\ UNCHANGED <<pc, fileNo, lineNo, lastLine, total, in_string, string_quote,
                 raw_hashes, escape, line, code_buf, in_line_comment,
                 startTotal, failed, opened_raw, startState, bufAtOpen,
                 prevOpen, codeLines>>
  /\ UNCHANGED <<seqDepth, seqCount, other, cur>>

\* variant: a */ lowers the depth at any depth
InBlockCommentAnyDepth ==
  /\ Scanning
  /\ block_depth > 0 \/ (ch = ST /\ nxt = SL)
  /\ IF ch = SL /\ nxt = ST
       THEN block_depth' = block_depth + 1 /\ i' = i + 2
       ELSE IF ch = ST /\ nxt = SL
              THEN block_depth' = block_depth - 1 /\ i' = i + 2
              ELSE block_depth' = block_depth /\ i' = i + 1
  /\ minDepth' = IF block_depth' < minDepth THEN block_depth' ELSE minDepth
  /\ iters' = iters + 1
  /\ UNCHANGED <<pc, fileNo, lineNo, lastLine, total, in_string, string_quote,
                 raw_hashes, escape, line, code_buf, in_line_comment,
                 startTotal, failed, opened_raw, startState, bufAtOpen,
                 prevOpen, codeLines>>
  /\ UNCHANGED <<seqDepth, seqCount, other, cur>>

\* Inside a block comment: handle nesting
InBlockComment ==
  /\ Scanning
  /\ block_depth > 0
  /\ IF ch = SL /\ nxt = ST
       THEN block_depth' = block_depth + 1 /\ i' = i + 2
       ELSE IF ch = ST /\ nxt = SL
              THEN block_depth' = block_depth - 1 /\ i' = i + 2
              ELSE block_depth' = block_depth /\ i' = i + 1
  /\ minDepth' = IF block_depth' < minDepth THEN block_depth' ELSE minDepth
  /\ iters' = iters + 1
  /\ UNCHANGED <<pc, fileNo, lineNo, lastLine, total, in_string, string_quote,
                 raw_hashes, escape, line, code_buf, in_line_comment,
                 startTotal, failed, opened_raw, startState, bufAtOpen,
                 prevOpen, codeLines>>
  /\ UNCHANGED <<seqDepth, seqCount, other, cur>>

IsLineCommentStart == block_depth = 0 /\ ch = SL /\ nxt = SL

\* variant: the first slash of the marker is kept as code
LineCommentKeepsSlash ==
  /\ Scanning
  /\ IsLineCommentStart
  /\ in_line_comment' = TRUE
  /\ code_buf' = Append(code_buf, ch)
  /\ iters' = iters + 1
  /\ UNCHANGED <<pc, fileNo, lineNo, lastLine, total, fileState, line, i,
                 startTotal, failed, opened_raw, lineHist, prevOpen,
                 codeLines>>
  /\ UNCHANGED <<seqDepth, seqCount, other, cur>>

\* Start of line comment: break
LineComment ==
  /\ Scanning
  /\ IsLineCommentStart
  /\ in_line_comment' = TRUE
  /\ iters' = iters + 1
  /\ UNCHANGED <<pc, fileNo, lineNo, lastLine, total, fileState, line, i,
                 code_buf, startTotal, failed, opened_raw, lineHist, prevOpen,
                 codeLines>>
  /\ UNCHANGED <<seqDepth, seqCount, other, cur>>

IsBlockCommentStart == block_depth = 0 /\ ch = SL /\ nxt = ST

\* variant: the opening marker is not stepped over
BlockCommentStartStuck ==
  /\ Scanning
  /\ IsBlockCommentStart
  /\ block_depth' = block_depth + 1
  /\ i' = i
  /\ bufAtOpen' = code_buf
  /\ iters' = iters + 1
  /\ UNCHANGED <<pc, fileNo, lineNo, lastLine, total, in_string, string_quote,
                 raw_hashes, escape, line, code_buf, in_line_comment,
                 startTotal, failed, opened_raw, startState, minDepth,
                 prevOpen, codeLines>>
  /\ UNCHANGED <<seqDepth, seqCount, other, cur>>

\* Start of block comment
BlockCommentStart ==
  /\ Scanning
  /\ IsBlockCommentStart
  /\ block_depth' = block_depth + 1
  /\ i' = i + 2
  /\ bufAtOpen' = code_buf
  /\ iters' = iters + 1
  /\ UNCHANGED <<pc, fileNo, lineNo, lastLine, total, in_string, string_quote,
                 raw_hashes, escape, line, code_buf, in_line_comment,
                 startTotal, failed, opened_raw, startState, minDepth,
                 prevOpen, codeLines>>
  /\ UNCHANGED <<seqDepth, seqCount, other, cur>>

\* variant: an open literal is looked at before the comment markers
NoCommentLiteralFirst ==
  block_depth = 0 /\ (in_string \/ ~(ch = SL /\ nxt \in {SL, ST}))

NoComment == block_depth = 0 /\ ~(ch = SL /\ nxt \in {SL, ST})

\* variant: a backslash arms the escape also when it is itself escaped
EscapedLiteralAlwaysArms(q) ==
  IF ch = BS
    THEN escape' = TRUE /\ in_string' = in_string
    ELSE IF ~escape /\ ch = q
           THEN in_string' = FALSE /\ escape' = escape
           ELSE escape' = FALSE /\ in_string' = in_string

\* normal string or char literal: simple escape handling
EscapedLiteral(q) ==
  IF ~escape /\ ch = BS
    THEN escape' = TRUE /\ in_string' = in_string
    ELSE IF ~escape /\ ch = q
           THEN in_string' = FALSE /\ escape' = escape
           ELSE escape' = FALSE /\ in_string' = in_string

\* variant: the quote closes the raw string and the next raw_hashes
\* characters are skipped unread
RawClosesUnchecked ==
  ch = DQ

\* raw string: closes at a quote followed by raw_hashes hashes
RawCloses ==
  ch = DQ /\ CloseHashes(line, i + 1, 0, raw_hashes) = raw_hashes

\* Inside a string or char literal
InString ==
  /\ Scanning
  /\ NoComment
  /\ in_string
  /\ code_buf' = Append(code_buf, ch)
  /\ IF string_quote = DQ
       THEN IF raw_hashes = 0
              THEN EscapedLiteral(DQ) /\ i' = i + 1
              ELSE IF RawCloses
                     THEN /\ in_string' = FALSE
                          /\ i' = (i + 1 + raw_hashes - 1) + 1
                          /\ escape' = escape
                     ELSE /\ i' = i + 1
                          /\ UNCHANGED <<in_string, escape>>
       ELSE EscapedLiteral(SQ) /\ i' = i + 1
  /\ opened_raw' = (opened_raw /\ in_string')
  /\ iters' = iters + 1
  /\ UNCHANGED <<pc, fileNo, lineNo, lastLine, total, block_depth,
                 string_quote, raw_hashes, line, in_line_comment,
                 startTotal, failed, lineHist, prevOpen, codeLines>>
  /\ UNCHANGED <<seqDepth, seqCount, other, cur>>

\* variant: r and hashes open a raw literal, whatever follows the hashes
IsRawStartNoQuote ==
  /\ ch = RR
  /\ nxt = DQ \/ nxt = HS

\* r, then hashes, then a quote on the same line
IsRawStart ==
  /\ ch = RR
  /\ nxt = DQ \/ nxt = HS
  /\ At(line, i + 1 + OpenHashes(line, i + 1)) = DQ

\* Raw string start: r"..." or r#"..."#
RawStringStart ==
  /\ Scanning
  /\ NoComment
  /\ ~in_string
  /\ IsRawStart
  /\ LET hashes == OpenHashes(line, i + 1)
         j == i + 1 + hashes
     IN  /\ in_string' = TRUE
         /\ string_quote' = DQ
         /\ raw_hashes' = hashes
         /\ escape' = FALSE
         /\ code_buf' = code_buf \o <<RR>> \o Repeat(HS, hashes) \o <<DQ>>
         /\ i' = j + 1
  /\ opened_raw' = TRUE
  /\ iters' = iters + 1
  /\ UNCHANGED <<pc, fileNo, lineNo, lastLine, total, block_depth, line,
                 in_line_comment, startTotal, failed, lineHist, prevOpen,
                 codeLines>>
  /\ UNCHANGED <<seqDepth, seqCount, other, cur>>

\* variant: the hash count of an earlier raw literal is kept
QuoteStartKeepsHashes ==
  /\ Scanning
  /\ NoComment
  /\ ~in_string
  /\ ~IsRawStart
  /\ ch = DQ \/ ch = SQ
  /\ in_string' = TRUE
  /\ string_quote' = ch
  /\ raw_hashes' = raw_hashes
  /\ escape' = FALSE
  /\ code_buf' = Append(code_buf, ch)
  /\ i' = i + 1
  /\ opened_raw' = FALSE
  /\ iters' = iters + 1
  /\ UNCHANGED <<pc, fileNo, lineNo, lastLine, total, block_depth, line,
                 in_line_comment, startTotal, failed, lineHist, prevOpen,
                 codeLines>>
  /\ UNCHANGED <<seqDepth, seqCount, other, cur>>

\* Start of a normal string or char literal
QuoteStart ==
  /\ Scanning
  /\ NoComment
  /\ ~in_string
  /\ ~IsRawStart
  /\ ch = DQ \/ ch = SQ
  /\ in_string' = TRUE
  /\ string_quote' = ch
  /\ raw_hashes' = 0
  /\ escape' = FALSE
  /\ code_buf' = Append(code_buf, ch)
  /\ i' = i + 1
  /\ opened_raw' = FALSE
  /\ iters' = iters + 1
  /\ UNCHANGED <<pc, fileNo, lineNo, lastLine, total, block_depth, line,
                 in_line_comment, startTotal, failed, lineHist, prevOpen,
                 codeLines>>
  /\ UNCHANGED <<seqDepth, seqCount, other, cur>>

\* Regular code char
PlainCode ==
  /\ Scanning
  /\ NoComment
  /\ ~in_string
  /\ ~IsRawStart
  /\ ~(ch = DQ \/ ch = SQ)
  /\ code_buf' = Append(code_buf, ch)
  /\ i' = i + 1
  /\ iters' = iters + 1
  /\ UNCHANGED <<pc, fileNo, lineNo, lastLine, total, fileState, line,
                 in_line_comment, startTotal, failed, opened_raw, lineHist,
                 prevOpen, codeLines>>
  /\ UNCHANGED <<seqDepth, seqCount, other, cur>>

HasCode == Strip(code_buf) # <<>>

\* end of the while loop: count the line if anything but whitespace remains
EndLine ==
  /\ pc = "line"
  /\ ~Scanning
  /\ total' = IF HasCode THEN total + 1 ELSE total
  /\ pc' = "file"
  \* the locals of the iteration are dead until the next line assigns them
  /\ line' = <<>>
  /\ i' = 0
  /\ code_buf' = <<>>
  /\ in_line_comment' = FALSE
  /\ startState' = NoStart
  /\ bufAtOpen' = <<>>
  /\ minDepth' = 0
  /\ iters' = 0
  /\ codeLines' = IF HasCode THEN codeLines + 1 ELSE codeLines
  /\ UNCHANGED <<fileNo, lineNo, lastLine, fileState, startTotal, failed,
                 opened_raw, prevOpen>>
  /\ UNCHANGED <<seqDepth, seqCount, other, cur>>

Step ==
  \/ InBlockComment
  \/ LineComment
  \/ BlockCommentStart
  \/ InString
  \/ RawStringStart
  \/ QuoteStart
  \/ PlainCode

Next ==
  \/ SkipFile
  \/ OpenFile
  \/ OpenFail
  \/ ReadLine
  \/ ReadFail
  \/ EndOfFile
  \/ Return
  \/ InBlockComment
  \/ LineComment
  \/ BlockCommentStart
  \/ InString
  \/ RawStringStart
  \/ QuoteStart
  \/ PlainCode
  \/ EndLine

Spec == Init /\ [][Next]_vars

-----------------------------------------------------------------------------
\* Two invocations whose steps interleave: every name the function assigns is
\* a local of the invocation, so each invocation has its own copy

\* the locals of the running invocation, with their history
locals == <<pc, fileNo, lineNo, lastLine, total, block_depth, in_string,
            string_quote, raw_hashes, escape, line, i, code_buf,
            in_line_comment, startTotal, failed, opened_raw, startState,
            bufAtOpen, minDepth, prevOpen, codeLines, iters, seqDepth,
            seqCount>>

\* lines the interleaved invocations read
ParMaxLines == 2
ParLines ==
  { <<XX>>, <<SL, ST, XX>>, <<DQ, SL, SL>> }
ParReadLine ==
  /\ lineNo < ParMaxLines
  /\ ReadLineFrom(ParLines)

\* variant: total is a global of the module, shared by the invocations
SwitchSharedTotal ==
  /\ other' = locals
  /\ cur' = 3 - cur
  /\ pc' = other[1]
  /\ fileNo' = other[2]
  /\ lineNo' = other[3]
  /\ lastLine' = other[4]
  /\ total' = total
  /\ block_depth' = other[6]
  /\ in_string' = other[7]
  /\ string_quote' = other[8]
  /\ raw_hashes' = other[9]
  /\ escape' = other[10]
  /\ line' = other[11]
  /\ i' = other[12]
  /\ code_buf' = other[13]
  /\ in_line_comment' = other[14]
  /\ startTotal' = other[15]
  /\ failed' = other[16]
  /\ opened_raw' = other[17]
  /\ startState' = other[18]
  /\ bufAtOpen' = other[19]
  /\ minDepth' = other[20]
  /\ prevOpen' = other[21]
  /\ codeLines' = other[22]
  /\ iters' = other[23]
  /\ seqDepth' = other[24]
  /\ seqCount' = other[25]

\* the scheduler suspends the running invocation and resumes the other one
Switch ==
  /\ other' = locals
  /\ cur' = 3 - cur
  /\ pc' = other[1]
  /\ fileNo' = other[2]
  /\ lineNo' = other[3]
  /\ lastLine' = other[4]
  /\ total' = other[5]
  /\ block_depth' = other[6]
  /\ in_string' = other[7]
  /\ string_quote' = other[8]
  /\ raw_hashes' = other[9]
  /\ escape' = other[10]
  /\ line' = other[11]
  /\ i' = other[12]
  /\ code_buf' = other[13]
  /\ in_line_comment' = other[14]
  /\ startTotal' = other[15]
  /\ failed' = other[16]
  /\ opened_raw' = other[17]
  /\ startState' = other[18]
  /\ bufAtOpen' = other[19]
  /\ minDepth' = other[20]
  /\ prevOpen' = other[21]
  /\ codeLines' = other[22]
  /\ iters' = other[23]
  /\ seqDepth' = other[24]
  /\ seqCount' = other[25]

\* a step of the running invocation
Run ==
  \/ pc # "file" /\ Next
  \/ pc = "file" /\ (ParReadLine \/ ReadFail \/ EndOfFile)

NextPar ==
  \/ Run
  \/ Switch

SpecPar == Init /\ [][NextPar]_vars

----------------------------------------------------------------------------
\* Vocabulary of the properties

\* the while loop of the current line has ended, the line is not yet counted
LineDone == pc = "line" /\ ~Scanning
\* a step of the while loop
ScanStep == pc = "line" /\ pc' = "line"
NonBlank(s) == \E k \in DOMAIN s : s[k] \notin Whitespace
Has(s, c) == \E k \in DOMAIN s : s[k] = c
startDepth == startState[1]
startInString == startState[2]
AtCommentMarker == ch = SL /\ (nxt = SL \/ nxt = ST)
\* the run of hashes that follows index k of the line
HashRun(l, k) ==
  CHOOSE n \in 0..Len(l) :
    /\ \A m \in 1..n : At(l, k + m) = HS
    /\ At(l, k + n + 1) # HS
\* r, a run of hashes, a quote, starting at index k
RawOpenerAt(l, k) == At(l, k) = RR /\ At(l, k + HashRun(l, k) + 1) = DQ

----------------------------------------------------------------------------
\* C1: while a literal is open its contents are never read as a comment: a //
\* met inside an open literal does not end the processing of the line, and a
\* line that lies wholly inside a literal is has-code exactly if it holds a
\* non-whitespace character.
C1_LiteralNeverComment ==
  /\ (pc = "line" /\ in_string) => ~in_line_comment
  /\ (LineDone /\ startDepth = 0 /\ startInString /\ in_string
        /\ ~Has(line, DQ) /\ ~Has(line, SQ))
       => (HasCode <=> NonBlank(line))

\* C2: a /* met at depth 0 inside an open literal is literal content: the depth
\* stays 0 and the character is appended to the code of the line.
C2_BlockStartOnlyOutsideLiteral ==
  [][(Scanning /\ block_depth = 0 /\ in_string /\ ch = SL /\ nxt = ST)
       => (block_depth' = 0 /\ code_buf' = Append(code_buf, ch))]_vars

\* a step of the scanner inside a raw literal of N >= 1 hashes
RawStep == Scanning /\ NoComment /\ in_string /\ raw_hashes > 0

C4_NoEscapeInRaw == (in_string /\ opened_raw) => ~escape

C6_BlockCommentCarried ==
  [][/\ (pc = "file" /\ pc' = "line") => block_depth' = block_depth
     /\ (pc = "line" /\ pc' = "file") =>
          /\ block_depth' = block_depth
          /\ total' = total + (IF NonBlank(code_buf) THEN 1 ELSE 0)
     /\ (pc' = "line" /\ minDepth' > 0) => code_buf' = <<>>
     /\ (pc' = "line" /\ block_depth' > 0) => code_buf' = bufAtOpen'
     /\ (ScanStep /\ block_depth > 0) => code_buf' = code_buf]_vars

\* the third line of a file lies wholly inside a comment opened after code on
\* an earlier line: it holds a plain character and is no-code
C6_Witness ==
  /\ LineDone
  /\ lineNo = 3
  /\ minDepth > 0
  /\ Has(line, XX)
  /\ ~HasCode
  /\ total = startTotal + 1

NestedPrefix == <<SL, ST, XX, SL, ST, XX, ST, SL, XX, ST, SL>>
StartsWith(l, p) == Len(l) >= Len(p) /\ SubSeq(l, 1, Len(p)) = p

\* C7: block comments nest: inside a comment /* raises and */ lowers the depth,
\* two characters each, any other character is passed over, and nothing is
\* appended; of the line /*x/*x*/x*/ X scanned from the initial state, X is
\* all the code.
C7_BlockCommentsNest ==
  [][/\ (ScanStep /\ block_depth > 0) =>
          /\ code_buf' = code_buf
          /\ (ch = SL /\ nxt = ST) =>
               (block_depth' = block_depth + 1 /\ i' = i + 2)
          /\ (ch = ST /\ nxt = SL) =>
               (block_depth' = block_depth - 1 /\ i' = i + 2)
          /\ (~(ch = SL /\ nxt = ST) /\ ~(ch = ST /\ nxt = SL)) =>
               (block_depth' = block_depth /\ i' = i + 1)
     /\ (LineDone' /\ startState' = NoStart /\ StartsWith(line', NestedPrefix)) =>
          /\ code_buf' = SubSeq(line', Len(NestedPrefix) + 1, Len(line'))
          /\ block_depth' = 0]_vars

\* the nested example with code after the final */ has been scanned
C7_Witness ==
  /\ LineDone
  /\ startState = NoStart
  /\ line = NestedPrefix \o <<XX, NL>>
  /\ HasCode
  /\ block_depth = 0

HasLineComment(l) == \E k \in 0..Len(l) : At(l, k) = SL /\ At(l, k + 1) = SL
\* index of the first // of the line
FirstLineComment(l) ==
  CHOOSE k \in 0..Len(l) :
    /\ At(l, k) = SL /\ At(l, k + 1) = SL
    /\ \A m \in 0..(k - 1) : ~(At(l, m) = SL /\ At(l, m + 1) = SL)
BeforeComment(l) == SubSeq(l, 1, FirstLineComment(l))
\* depth 0, no open literal, and neither /* nor a quote before the first //
PlainBeforeComment ==
  /\ startDepth = 0
  /\ ~startInString
  /\ HasLineComment(line)
  /\ ~Has(BeforeComment(line), DQ)
  /\ ~Has(BeforeComment(line), SQ)
  /\ \A m \in 0..(FirstLineComment(line) - 1) :
        ~(At(line, m) = SL /\ At(line, m + 1) = ST)

\* C8: a line that starts at depth 0 outside a literal, with neither /* nor a
\* quote before its first //, is has-code exactly if a non-whitespace
\* character precedes that //; the scan stops at the //, and the state carried
\* to the next line is the state the line started in.
C8_LineComment ==
  (LineDone /\ PlainBeforeComment) =>
     /\ HasCode <=> NonBlank(BeforeComment(line))
     /\ code_buf = BeforeComment(line)
     /\ i = FirstLineComment(line)
     /\ fileState = startState

\* code, then a // followed by more text: the line is has-code
C8_Witness ==
  /\ LineDone
  /\ PlainBeforeComment
  /\ HasCode
  /\ NonBlank(SubSeq(line, FirstLineComment(line) + 3, Len(line)))

\* C9: no scanner state leaks between files: every file starts in the initial
\* scanner state whatever state the file before ended in, and while a file is
\* scanned the total exceeds the total at its opening by at most one per line
\* read of that file.
C9_NoLeakBetweenFiles ==
  /\ (pc = "file" /\ lineNo = 0) => (fileState = NoStart /\ total = startTotal)
  /\ (pc \in {"file", "line"}) =>
       (total >= startTotal /\ total - startTotal <= lineNo)

\* a file is opened after a file that ended inside a comment or a literal
C9_Witness ==
  /\ pc = "file"
  /\ lineNo = 0
  /\ fileNo > 0
  /\ prevOpen
  /\ total > 0

\* C10: a file whose opening or reading raised OSError contributes nothing: the
\* total after it is the total before it.
C10_FailedFileCountsZero == (pc = "walk" /\ failed) => total = startTotal

\* C11: the end of a file inside a comment or a literal is no error: the file
\* ends like any other, the next file of the walk is next, no line is counted
\* at the end, and what the file has added to the total is the number of its
\* lines classified has-code.
C11_EndInOpenState ==
  [][(pc = "file" /\ pc' = "walk" /\ ~failed') =>
       /\ total' = total
       /\ total = startTotal + codeLines
       /\ codeLines <= lineNo
       /\ fileNo' = fileNo + 1]_vars

\* the first file has ended inside a comment or a literal, one line counted
C11_Witness ==
  /\ pc = "walk"
  /\ fileNo = 1
  /\ prevOpen
  /\ ~failed
  /\ total = 1
  /\ codeLines = 1

\* C13: every iteration of the loop over a line either abandons the line at a
\* line comment or moves the index forward, by 1, by 2 at a comment marker, or
\* past a whole opening or closing raw delimiter; the index never passes the
\* end of the line, and a line of length L takes at most L iterations.
C13_IndexAdvances ==
  [][ScanStep =>
       /\ (in_line_comment' /\ i' = i) \/ (~in_line_comment' /\ i' > i)
       /\ i' <= line_len
       /\ iters' <= line_len
       /\ \/ i' = i
          \/ i' = i + 1
          \/ i' = i + 2 /\ ((ch = SL /\ nxt = ST) \/ (ch = ST /\ nxt = SL))
          \/ i' = i + HashRun(line, i) + 2 /\ RawOpenerAt(line, i)
                /\ ~in_string /\ in_string'
          \/ i' = i + 1 + raw_hashes /\ ch = DQ /\ in_string /\ ~in_string']_vars

\* a line of the greatest length, scanned to its end in fewer iterations than
\* it has characters
C13_Witness ==
  /\ LineDone
  /\ ~in_line_comment
  /\ i = line_len
  /\ line_len = MaxLineLen + 1
  /\ iters > 1
  /\ iters < line_len

\* C17: the depth is never negative: it is lowered only by a */ met at a depth
\* above 0, by one; the * of a */ met at depth 0 is appended as code and the
\* depth stays 0.
C17_DepthNeverNegative ==
  [][/\ block_depth' >= 0
     /\ (ScanStep /\ block_depth' < block_depth) =>
          /\ block_depth > 0
          /\ ch = ST /\ nxt = SL
          /\ block_depth' = block_depth - 1
     /\ (ScanStep /\ block_depth = 0 /\ ch = ST /\ nxt = SL) =>
          /\ block_depth' = 0
          /\ code_buf' = Append(code_buf, ch)
          /\ i' = i + 1]_vars

\* a */ met at depth 0 outside a literal: both characters are code
C17_Witness ==
  /\ pc = "line"
  /\ block_depth = 0
  /\ minDepth = 0
  /\ ~in_string
  /\ i >= 2
  /\ At(line, i - 2) = ST
  /\ At(line, i - 1) = SL
  /\ Len(code_buf) = i
  /\ code_buf[i] = SL

\* C18: the literal sub-state is consistent: escape only inside an open
\* literal without hashes, a hash count above 0 only with the double quote,
\* an open literal only with a quote recorded; no literal is closed while
\* escape is set.
C18_LiteralStateConsistent ==
  [][/\ escape' => (in_string' /\ raw_hashes' = 0)
     /\ raw_hashes' > 0 => string_quote' = DQ
     /\ in_string' => string_quote' \in {DQ, SQ}
     /\ (pc = "line" /\ in_string /\ ~in_string') => (~escape /\ ~escape')]_vars

\* a char literal opened after a raw literal with hashes was closed, its
\* escape armed
C18_Witness ==
  /\ pc = "line"
  /\ in_string
  /\ string_quote = SQ
  /\ escape
  /\ raw_hashes = 0
  /\ startState[4] > 0

\* C14: the literal tracking never changes the result: every line is
\* classified, and leaves the depth, as by the scanner that tracks only the
\* depth and // and takes quotes, backslashes, r and # for plain code.
C14_LiteralTrackingIdle ==
  LineDone => Reduced(line, 0, startDepth, FALSE) = <<block_depth, HasCode>>

\* a literal open at the start of the line was closed on it
C14_Witness ==
  /\ LineDone
  /\ startDepth = 0
  /\ startInString
  /\ ~in_string
  /\ Has(line, BS)
  /\ HasCode

\* the backslashes that immediately precede index k of the line
BackslashRun(l, k) ==
  CHOOSE n \in 0..k :
    /\ \A m \in 1..n : At(l, k - m) = BS
    /\ At(l, k - n - 1) # BS
\* the line started at depth 0 with no escape pending, and no comment marker
\* precedes index i
NoMarkerSoFar ==
  /\ startDepth = 0
  /\ ~startState[5]
  /\ \A m \in 0..(i - 1) : ~(At(line, m) = SL /\ At(line, m + 1) \in {SL, ST})
NonRawStep ==
  /\ Scanning /\ block_depth = 0 /\ ~AtCommentMarker
  /\ in_string /\ raw_hashes = 0
  /\ NoMarkerSoFar

\* C15: in a literal without hashes, no comment marker in between, escape is
\* set exactly after an odd number of consecutive backslashes; the literal
\* closes exactly at its own quote preceded by an even number of them, never
\* at the other quote; every character but an unescaped backslash clears
\* escape.
C15_EscapeRule ==
  [][NonRawStep =>
       /\ escape <=> (BackslashRun(line, i) % 2 = 1)
       /\ ~in_string' <=> (ch = string_quote /\ BackslashRun(line, i) % 2 = 0)
       /\ escape' <=> (ch = BS /\ ~escape)
       /\ string_quote' = string_quote]_vars

\* a literal open at the start of the line is closed by its quote after two
\* backslashes
C15_Witness ==
  /\ pc = "line"
  /\ startDepth = 0
  /\ startInString
  /\ ~startState[5]
  /\ At(line, 0) = BS
  /\ At(line, 1) = BS
  /\ At(line, 2) = string_quote
  /\ i = 3
  /\ ~in_string

\* C16: outside comments and literals an r followed by n >= 0 hashes and a
\* quote opens a literal with the double quote, n hashes and no escape,
\* appends the whole opening delimiter and moves the index past the quote; any
\* other r opens nothing: the literal state is unchanged and the r alone is
\* appended.
C16_RawOpening ==
  [][(ScanStep /\ block_depth = 0 /\ ~in_string /\ ch = RR) =>
       IF RawOpenerAt(line, i)
         THEN /\ in_string' /\ string_quote' = DQ /\ ~escape'
              /\ raw_hashes' = HashRun(line, i)
              /\ code_buf' =
                   code_buf \o SubSeq(line, i + 1, i + HashRun(line, i) + 2)
              /\ i' = i + HashRun(line, i) + 2
              /\ block_depth' = 0
         ELSE /\ UNCHANGED fileState
              /\ code_buf' = Append(code_buf, RR)
              /\ i' = i + 1]_vars

\* r# not followed by a quote, after a raw literal with hashes was closed:
\* the r alone is consumed and the state is as it was
C16_Witness ==
  /\ pc = "line"
  /\ i = 1
  /\ At(line, 0) = RR
  /\ At(line, 1) = HS
  /\ At(line, 2) \notin {HS, DQ}
  /\ code_buf = <<RR>>
  /\ fileState = startState
  /\ ~in_string
  /\ raw_hashes > 0

\* C12: two invocations whose steps interleave in any order each count what
\* the text of their own files gives when scanned alone: at every point
\* between lines the total of an invocation is the number of has-code lines
\* it has read, and no step of the running invocation changes a local of the
\* other.
C12_InvocationsIndependent ==
  /\ [](pc # "line" => total = seqCount /\ block_depth = seqDepth)
  /\ [](other[1] # "line" => other[5] = other[25] /\ other[6] = other[24])
  /\ [][cur' = cur => other' = other]_vars
  /\ [][cur' # cur => (other' = locals /\ locals' = other)]_vars

\* the sequential scan gives the count of the text
C12_Sequential ==
  pc # "line" => total = seqCount /\ block_depth = seqDepth

\* both invocations are in the middle of a line, one in a literal, the other
\* in a block comment, with different totals
C12_Witness ==
  /\ cur = 2
  /\ pc = "line"
  /\ i = 1
  /\ in_string
  /\ other[1] = "line"
  /\ other[12] = 2
  /\ other[6] > 0
  /\ total = 1
  /\ other[5] = 0
  /\ other[2] = 1

TypeOK ==
  /\ pc \in {"walk", "file", "line", "done"}
  /\ fileNo \in 0..MaxFiles
  /\ lineNo \in 0..MaxLines
  /\ total \in Nat
  /\ block_depth \in Int
  /\ in_string \in BOOLEAN
  /\ string_quote \in {None, DQ, SQ}
  /\ raw_hashes \in Nat
  /\ escape \in BOOLEAN
  /\ i \in 0..(Len(line) + 1)
====
